---- MODULE Spec2Model ----
(***************************************************************************)
(* Device registry and data-verification chaincode                         *)
(* (src/chaincode/chaincode/smartcontract.go) over a key-value world       *)
(* state.                                                                  *)
(*                                                                         *)
(* Representation of Go values.                                            *)
(*  - A Go string is a sequence of units.  A unit is one character, or a   *)
(*    whole literal of the program written as one unit ("DataRecord",      *)
(*    "active", ...).  Three units are special: NUL is U+0000, XFF is the  *)
(*    byte 0xFF (not valid UTF-8), RuneError is U+FFFD.  The empty         *)
(*    sequence is the empty string.                                        *)
(*  - A Go struct is a record with the struct's field names.               *)
(*  - The bytes json.Marshal produces are modelled as the JSON object they *)
(*    encode: a function from the member names present to string values.   *)
(*  - The world state is a map: a function whose domain is the set of keys *)
(*    that hold a value.                                                   *)
(*                                                                         *)
(*                                                                         *)
(* An invocation runs against the committed world state.  Each writing     *)
(* function makes one read (GetState) and, unless it returns before, one   *)
(* write (PutState); the two are separate calls, and commits and the calls *)
(* of other invocations may fall between them.  An invocation that returns *)
(* an error, or that wrote nothing, is complete when it returns.  One that *)
(* returned nil with a recorded write is committed later.  The ledger      *)
(* collaborator rejects concurrent invocations that target the same key:   *)
(* PutState returns an error for a key that holds the write of another     *)
(* invocation awaiting commit, or that another invocation has had          *)
(* committed since this one began (spec section 5).                        *)
(* ledger is the committed world state, and last is the last invocation    *)
(* that completed, pre being the committed world state right before.       *)
(* Every value in the world state is an object json.Marshal wrote, which   *)
(* json.Unmarshal decodes without error.                                   *)
(***************************************************************************)
EXTENDS Naturals, Sequences, FiniteSets, TLC

VARIABLES
    ledger,      \* the world state: key -> stored JSON object
    pre,         \* the world state before the last invocation
    last,        \* the last invocation: operation, arguments, outcome
    registered,  \* history: id -> what its successful registrations wrote
    inputs,      \* which arguments the callers of this run pass
    running,     \* invocations that made their read and have not called PutState yet
    txs          \* invocations that returned nil and await the commit of their write

vars == <<ledger, pre, last, registered, inputs, running, txs>>

-----------------------------------------------------------------------------
(* Strings *)

NUL == "NUL"
XFF == "xFF"
RuneError == "uFFFD"
MaxRune == "u10FFFF"

EmptyString == <<>>

Digit == <<"1", "2", "3", "4", "5", "6">>

\* utf8.ValidString
ValidUTF8(s) == \A i \in 1..Len(s) : s[i] # XFF

\* encoding/json writes a string coerced to valid UTF-8: every invalid byte
\* becomes U+FFFD.  Decoding the escaped text gives the coerced string back.
CoerceUTF8(s) == [i \in 1..Len(s) |-> IF s[i] = XFF THEN RuneError ELSE s[i]]

\* the absent value: GetState's nil
Nil == [nil |-> TRUE]

-----------------------------------------------------------------------------
(* Bounds and input domains *)

NumOwners == 2

PlainDevice == <<"d", "1">>

Timestamps == {<<"t", "1">>, <<"t", "2">>}

ObjectType == <<"DataRecord">>

\* the string "\x00DataRecord\x00d1\x00t1\x00", passed as a device id
CraftedDevice ==
    <<NUL>> \o ObjectType \o <<NUL>> \o PlainDevice \o <<NUL>> \o <<"t", "1">> \o <<NUL>>

TextOwners == {<<"o", Digit[i]>> : i \in 1..NumOwners}

Locations == {<<"l">>}

NumInvocations == 2

\* The arguments the callers of one run pass, and how many invocations they
\* have in progress at once (between the read and the commit of the write).  A run either passes device ids that are text or
\* the text of a composite key, with text payloads; or one plain device id
\* with payloads that may be bytes which are not UTF-8; or one plain device id
\* and two timestamps; or one plain device id with text payloads from two
\* owners whose callers do not wait for one another.
KeyInputs ==
    [devices |-> {PlainDevice, CraftedDevice},
     timestamps |-> {<<"t", "1">>},
     owners |-> TextOwners,
     data |-> {<<"x">>},
     verifiers |-> {<<"v">>},
     inFlight |-> 1]

ByteInputs ==
    [devices |-> {PlainDevice},
     timestamps |-> {<<"t", "1">>},
     owners |-> TextOwners \cup {<<XFF>>},
     data |-> {<<"x">>, <<XFF>>},
     verifiers |-> {<<"v">>, <<XFF>>},
     inFlight |-> 1]

PairInputs ==
    [devices |-> {PlainDevice},
     timestamps |-> Timestamps,
     owners |-> {<<"o", "1">>},
     data |-> {<<"x">>},
     verifiers |-> {<<"v">>},
     inFlight |-> 1]

OverlapInputs ==
    [devices |-> {PlainDevice},
     timestamps |-> {<<"t", "1">>},
     owners |-> {<<"o", "1">>, <<"o", "2">>},
     data |-> {<<"x">>},
     verifiers |-> {<<"v">>},
     inFlight |-> NumInvocations]

\* the outcome of the ledger collaborator's calls during one invocation:
\* whether its read (GetState) and its write (PutState) succeed.  An
\* invocation whose read fails never reaches its write.
IOs == {[getOK |-> TRUE, putOK |-> TRUE],
        [getOK |-> FALSE, putOK |-> TRUE],
        [getOK |-> TRUE, putOK |-> FALSE]}

\* the outcomes of a read, and of the whole of an invocation that only reads
ReadIOs == {io \in IOs : io.putOK}

\* the outcomes of the write of an invocation whose read succeeded
WriteIOs == {io \in IOs : io.getOK}

-----------------------------------------------------------------------------
(* The ledger collaborator (ctx.GetStub()) *)

\* GetState(key): the stored value, nil when the key holds none, or an error
GetState(L, key, io) ==
    IF ~io.getOK
    THEN [err |-> TRUE, value |-> Nil]
    ELSE [err |-> FALSE, value |-> IF key \in DOMAIN L THEN L[key] ELSE Nil]

\* PutState(key, value): associates key with value, replacing any prior value
PutState(L, key, value, io) ==
    IF ~io.putOK
    THEN [err |-> TRUE, ledger |-> L]
    ELSE [err |-> FALSE,
          ledger |-> [k \in DOMAIN L \cup {key} |-> IF k = key THEN value ELSE L[k]]]

\* an attribute of a composite key must be valid UTF-8 and hold neither
\* U+0000 nor U+10FFFF
ValidAttribute(s) ==
    /\ ValidUTF8(s)
    /\ \A i \in 1..Len(s) : s[i] \notin {NUL, MaxRune}

\* CreateCompositeKey(objectType, {deviceID, timestamp}):
\* "\x00" + objectType + "\x00" + deviceID + "\x00" + timestamp + "\x00"
CreateCompositeKey(objectType, deviceID, timestamp) ==
    IF ValidAttribute(objectType) /\ ValidAttribute(deviceID) /\ ValidAttribute(timestamp)
    THEN [err |-> FALSE,
          key |-> <<NUL>> \o objectType \o <<NUL>> \o deviceID \o <<NUL>>
                      \o timestamp \o <<NUL>>]
    ELSE [err |-> TRUE, key |-> EmptyString]

-----------------------------------------------------------------------------
(* Entities and their JSON encoding *)

Active == <<"active">>
Pending == <<"pending">>
Verified == <<"verified">>
Rejected == <<"rejected">>

\* json.Marshal(device): members id, owner, location, status
MarshalDevice(device) ==
    [id |-> CoerceUTF8(device.ID),
     owner |-> CoerceUTF8(device.Owner),
     location |-> CoerceUTF8(device.Location),
     status |-> CoerceUTF8(device.Status)]

\* json.Marshal(dataRecord): members deviceID, timestamp, data, status and,
\* unless it is empty (omitempty), verifierID
MarshalDataRecord(rec) ==
    IF rec.VerifierID = EmptyString
    THEN [deviceID |-> CoerceUTF8(rec.DeviceID),
          timestamp |-> CoerceUTF8(rec.Timestamp),
          data |-> CoerceUTF8(rec.Data),
          status |-> CoerceUTF8(rec.Status)]
    ELSE [deviceID |-> CoerceUTF8(rec.DeviceID),
          timestamp |-> CoerceUTF8(rec.Timestamp),
          data |-> CoerceUTF8(rec.Data),
          status |-> CoerceUTF8(rec.Status),
          verifierID |-> CoerceUTF8(rec.VerifierID)]

\* a member of a JSON object decoded into a zero-valued struct: the member's
\* value, or the zero value "" when the object has no such member
Member(json, name) == IF name \in DOMAIN json THEN json[name] ELSE EmptyString

\* json.Unmarshal(bytes, &device): members not of Device are ignored
UnmarshalDevice(json) ==
    [ID |-> Member(json, "id"),
     Owner |-> Member(json, "owner"),
     Location |-> Member(json, "location"),
     Status |-> Member(json, "status")]

\* json.Unmarshal(bytes, &dataRecord): members not of DataRecord are ignored
UnmarshalDataRecord(json) ==
    [DeviceID |-> Member(json, "deviceID"),
     Timestamp |-> Member(json, "timestamp"),
     Data |-> Member(json, "data"),
     Status |-> Member(json, "status"),
     VerifierID |-> Member(json, "verifierID")]

-----------------------------------------------------------------------------
(* The contract's operations, as functions of the world state L.           *)
(* Each returns the error (OK for nil), the world state it leaves, the     *)
(* keys it called PutState on, in order, and the value it returns.         *)

OK == "OK"
AlreadyExists == "AlreadyExists"                \* "device %s already registered"
DeviceNotRegistered == "DeviceNotRegistered"    \* "device %s not registered"
NotFound == "NotFound"                          \* "... does not exist", "data record not found"
LedgerReadError == "LedgerReadError"            \* GetState returned an error
LedgerWriteError == "LedgerWriteError"          \* PutState returned an error
CompositeKeyError == "CompositeKeyError"        \* "failed to create composite key"

Ret(err, L, writes, value) ==
    [err |-> err, ledger |-> L, writes |-> writes, value |-> value]

\* the return of a function that ends with "return PutState(key, value)"
RetPut(L, key, value, io) ==
    LET p == PutState(L, key, value, io)
    IN  Ret(IF p.err THEN LedgerWriteError ELSE OK, p.ledger, <<key>>, Nil)

\* a returned bool, as a value
Bool(b) == [bool |-> b]

\* DeviceExists that reports a failed read as "no value"
DeviceExistsMasksError(L, deviceID, io) ==
    LET g == GetState(L, deviceID, io)
    IN  Ret(OK, L, <<>>, Bool(~g.err /\ g.value # Nil))

DeviceExists(L, deviceID, io) ==
    LET g == GetState(L, deviceID, io)
    IN  IF g.err
        THEN Ret(LedgerReadError, L, <<>>, Bool(FALSE))
        ELSE Ret(OK, L, <<>>, Bool(g.value # Nil))

\* RegisterDevice without the existence check: it writes over a registered id
RegisterDeviceNoCheck(L, deviceID, owner, location, io) ==
    LET e == DeviceExists(L, deviceID, io)
    IN  IF e.err # OK THEN Ret(LedgerReadError, L, <<>>, Nil)
        ELSE LET device == [ID |-> deviceID, Owner |-> owner,
                            Location |-> location, Status |-> Active]
             IN  RetPut(L, deviceID, MarshalDevice(device), io)

\* RegisterDevice that drops the error of its write
RegisterDeviceIgnoresWriteError(L, deviceID, owner, location, io) ==
    LET e == DeviceExists(L, deviceID, io)
    IN  IF e.err # OK THEN Ret(LedgerReadError, L, <<>>, Nil)
        ELSE IF e.value.bool THEN Ret(AlreadyExists, L, <<>>, Nil)
        ELSE LET device == [ID |-> deviceID, Owner |-> owner,
                            Location |-> location, Status |-> Active]
                 p == PutState(L, deviceID, MarshalDevice(device), io)
             IN  Ret(OK, p.ledger, <<deviceID>>, Nil)

RegisterDevice(L, deviceID, owner, location, io) ==
    LET e == DeviceExists(L, deviceID, io)
    IN  IF e.err # OK THEN Ret(LedgerReadError, L, <<>>, Nil)
        ELSE IF e.value.bool THEN Ret(AlreadyExists, L, <<>>, Nil)
        ELSE LET device == [ID |-> deviceID, Owner |-> owner,
                            Location |-> location, Status |-> Active]
             IN  RetPut(L, deviceID, MarshalDevice(device), io)

\* SubmitData that writes the record before it checks the device
SubmitDataWritesFirst(L, deviceID, timestamp, data, io) ==
    LET dataRecord == [DeviceID |-> deviceID, Timestamp |-> timestamp,
                       Data |-> data, Status |-> Pending,
                       VerifierID |-> EmptyString]
        ck == CreateCompositeKey(ObjectType, deviceID, timestamp)
    IN  IF ck.err THEN Ret(CompositeKeyError, L, <<>>, Nil)
        ELSE LET w == RetPut(L, ck.key, MarshalDataRecord(dataRecord), io)
                 e == DeviceExists(L, deviceID, io)
             IN  IF w.err # OK THEN w
                 ELSE IF e.err # OK THEN Ret(LedgerReadError, w.ledger, w.writes, Nil)
                 ELSE IF ~e.value.bool THEN Ret(DeviceNotRegistered, w.ledger, w.writes, Nil)
                 ELSE w

SubmitData(L, deviceID, timestamp, data, io) ==
    LET e == DeviceExists(L, deviceID, io)
    IN  IF e.err # OK THEN Ret(LedgerReadError, L, <<>>, Nil)
        ELSE IF ~e.value.bool THEN Ret(DeviceNotRegistered, L, <<>>, Nil)
        ELSE LET dataRecord == [DeviceID |-> deviceID, Timestamp |-> timestamp,
                                Data |-> data, Status |-> Pending,
                                VerifierID |-> EmptyString]
                 ck == CreateCompositeKey(ObjectType, deviceID, timestamp)
             IN  IF ck.err THEN Ret(CompositeKeyError, L, <<>>, Nil)
                 ELSE RetPut(L, ck.key, MarshalDataRecord(dataRecord), io)

\* VerifyData that puts a record it does not accept back to pending
VerifyDataResets(L, deviceID, timestamp, verifierID, isValid, io) ==
    LET ck == CreateCompositeKey(ObjectType, deviceID, timestamp)
    IN  IF ck.err THEN Ret(CompositeKeyError, L, <<>>, Nil)
        ELSE LET g == GetState(L, ck.key, io)
             IN  IF g.err THEN Ret(LedgerReadError, L, <<>>, Nil)
                 ELSE IF g.value = Nil THEN Ret(NotFound, L, <<>>, Nil)
                 ELSE LET dataRecord == UnmarshalDataRecord(g.value)
                          updated == [dataRecord EXCEPT
                                        !.Status = IF isValid THEN Verified ELSE Pending,
                                        !.VerifierID = verifierID]
                      IN  RetPut(L, ck.key, MarshalDataRecord(updated), io)

\* VerifyData without the nil check: an absent record is decoded as the zero
\* DataRecord and written
VerifyDataCreates(L, deviceID, timestamp, verifierID, isValid, io) ==
    LET ck == CreateCompositeKey(ObjectType, deviceID, timestamp)
    IN  IF ck.err THEN Ret(CompositeKeyError, L, <<>>, Nil)
        ELSE LET g == GetState(L, ck.key, io)
             IN  IF g.err THEN Ret(LedgerReadError, L, <<>>, Nil)
                 ELSE LET dataRecord == UnmarshalDataRecord(g.value)
                          updated == [dataRecord EXCEPT
                                        !.Status = IF isValid THEN Verified ELSE Rejected,
                                        !.VerifierID = verifierID]
                      IN  RetPut(L, ck.key, MarshalDataRecord(updated), io)

\* VerifyData that drops the error of its write
VerifyDataIgnoresWriteError(L, deviceID, timestamp, verifierID, isValid, io) ==
    LET ck == CreateCompositeKey(ObjectType, deviceID, timestamp)
    IN  IF ck.err THEN Ret(CompositeKeyError, L, <<>>, Nil)
        ELSE LET g == GetState(L, ck.key, io)
             IN  IF g.err THEN Ret(LedgerReadError, L, <<>>, Nil)
                 ELSE IF g.value = Nil THEN Ret(NotFound, L, <<>>, Nil)
                 ELSE LET dataRecord == UnmarshalDataRecord(g.value)
                          updated == [dataRecord EXCEPT
                                        !.Status = IF isValid THEN Verified ELSE Rejected,
                                        !.VerifierID = verifierID]
                          p == PutState(L, ck.key, MarshalDataRecord(updated), io)
                      IN  Ret(OK, p.ledger, <<ck.key>>, Nil)

VerifyData(L, deviceID, timestamp, verifierID, isValid, io) ==
    LET ck == CreateCompositeKey(ObjectType, deviceID, timestamp)
    IN  IF ck.err THEN Ret(CompositeKeyError, L, <<>>, Nil)
        ELSE LET g == GetState(L, ck.key, io)
             IN  IF g.err THEN Ret(LedgerReadError, L, <<>>, Nil)
                 ELSE IF g.value = Nil THEN Ret(NotFound, L, <<>>, Nil)
                 ELSE LET dataRecord == UnmarshalDataRecord(g.value)
                          updated == [dataRecord EXCEPT
                                        !.Status = IF isValid THEN Verified ELSE Rejected,
                                        !.VerifierID = verifierID]
                      IN  RetPut(L, ck.key, MarshalDataRecord(updated), io)

\* GetDevice that stores the zero Device under a key it finds empty
GetDeviceCreates(L, deviceID, io) ==
    LET g == GetState(L, deviceID, io)
    IN  IF g.err THEN Ret(LedgerReadError, L, <<>>, Nil)
        ELSE IF g.value = Nil
             THEN LET zero == [ID |-> EmptyString, Owner |-> EmptyString,
                               Location |-> EmptyString, Status |-> EmptyString]
                      p == PutState(L, deviceID, MarshalDevice(zero), io)
                  IN  Ret(NotFound, p.ledger, <<deviceID>>, Nil)
        ELSE Ret(OK, L, <<>>, UnmarshalDevice(g.value))

GetDevice(L, deviceID, io) ==
    LET g == GetState(L, deviceID, io)
    IN  IF g.err THEN Ret(LedgerReadError, L, <<>>, Nil)
        ELSE IF g.value = Nil THEN Ret(NotFound, L, <<>>, Nil)
        ELSE Ret(OK, L, <<>>, UnmarshalDevice(g.value))

GetDataRecord(L, deviceID, timestamp, io) ==
    LET ck == CreateCompositeKey(ObjectType, deviceID, timestamp)
    IN  IF ck.err THEN Ret(CompositeKeyError, L, <<>>, Nil)
        ELSE LET g == GetState(L, ck.key, io)
             IN  IF g.err THEN Ret(LedgerReadError, L, <<>>, Nil)
                 ELSE IF g.value = Nil THEN Ret(NotFound, L, <<>>, Nil)
                 ELSE Ret(OK, L, <<>>, UnmarshalDataRecord(g.value))

-----------------------------------------------------------------------------
(* The state machine: one action per collaborator call of a transaction    *)
(* function, and the commit                                                *)

\* the arguments of this run
Args ==
    CASE inputs = "keys" -> KeyInputs
      [] inputs = "bytes" -> ByteInputs
      [] inputs = "pairs" -> PairInputs
      [] inputs = "overlap" -> OverlapInputs

NoArg == <<>>

\* an invocation and its outcome; read holds the committed values, at the
\* time of the call, of the keys it called GetState on
Invocation(op, deviceID, arg2, arg3, isValid, read, r) ==
    [op |-> op, deviceID |-> deviceID, arg2 |-> arg2, arg3 |-> arg3,
     isValid |-> isValid, read |-> read,
     err |-> r.err, writes |-> r.writes, value |-> r.value]

EmptyLedger == [k \in {} |-> Nil]

\* the values an invocation passed to PutState, by key
WriteSet(r) ==
    [k \in {r.writes[i] : i \in 1..Len(r.writes)} \cap DOMAIN r.ledger |-> r.ledger[k]]

\* a ledger collaborator whose read succeeds and whose write fails
WriteFault == [getOK |-> TRUE, putOK |-> FALSE]

\* what an invocation read: the committed values of the keys it called
\* GetState on
Snapshot(keys) == [k \in DOMAIN ledger \cap keys |-> ledger[k]]

\* the keys that hold the write of an invocation awaiting commit
PendingKeys == UNION {DOMAIN txs[i].puts : i \in DOMAIN txs}

\* the return of an invocation c that may overlap others: r when its PutState
\* is accepted, and rfail, its return when PutState returns an error, when
\* its write targets a key that another invocation awaiting commit wrote, or
\* that another invocation has had committed since c began
ConflictDetection(c, r, rfail) ==
    IF r.err = OK /\ DOMAIN WriteSet(r) \cap (PendingKeys \cup c.since) # {}
    THEN rfail
    ELSE r

Init ==
    /\ ledger = EmptyLedger
    /\ pre = EmptyLedger
    /\ last = Invocation("none", NoArg, NoArg, NoArg, FALSE, EmptyLedger,
                         Ret(OK, EmptyLedger, <<>>, Nil))
    /\ registered = [k \in {} |-> Nil]
    /\ inputs \in {"keys", "bytes", "pairs", "overlap"}
    /\ running = <<>>
    /\ txs = <<>>

\* the history of registrations: the object the first successful
\* registration of an id wrote, and how many registrations of it succeeded
Record(reg, deviceID, r) ==
    IF r.err # OK THEN reg
    ELSE [k \in DOMAIN reg \cup {deviceID} |->
            IF k # deviceID THEN reg[k]
            ELSE IF k \in DOMAIN reg
                 THEN [reg[k] EXCEPT !.count = 2]
                 ELSE [json |-> r.ledger[deviceID], count |-> 1]]

\* an invocation completes: inv is the last invocation, r.ledger the committed
\* world state it leaves
Step(inv, r) ==
    /\ pre' = ledger
    /\ ledger' = r.ledger
    /\ last' = inv
    /\ UNCHANGED inputs

\* a writing function has made its read, r being its return were its write
\* accepted.  When it returns without a call of PutState the invocation is
\* complete; otherwise it goes on to its write with what it read.
Begin(op, deviceID, arg2, arg3, isValid, read, r) ==
    IF r.writes = <<>>
    THEN /\ Step(Invocation(op, deviceID, arg2, arg3, isValid, read, r),
                 [ledger |-> ledger])
         /\ UNCHANGED <<registered, running, txs>>
    ELSE /\ Len(running) + Len(txs) < Args.inFlight
         /\ running' = Append(running,
                              [op |-> op, deviceID |-> deviceID, arg2 |-> arg2,
                               arg3 |-> arg3, isValid |-> isValid,
                               read |-> read, since |-> {}])
         /\ UNCHANGED <<ledger, pre, last, registered, inputs, txs>>

\* the sequence q but its i-th element
Remaining(q, i) ==
    [j \in 1..(Len(q) - 1) |-> IF j < i THEN q[j] ELSE q[j + 1]]

\* a transaction function returns from its write.  With an error the
\* invocation is complete and the committed world state is as it was.  With
\* nil and a recorded write, the invocation awaits its commit.
Return(i, inv, r) ==
    /\ running' = Remaining(running, i)
    /\ IF r.err = OK /\ DOMAIN WriteSet(r) # {}
       THEN /\ txs' = Append(txs, [inv |-> inv, puts |-> WriteSet(r)])
            /\ UNCHANGED <<ledger, pre, last, registered, inputs>>
       ELSE /\ Step(inv, [ledger |-> ledger])
            /\ UNCHANGED <<registered, txs>>

\* RegisterDevice up to its existence check
RegisterDeviceCall ==
    \E deviceID \in Args.devices, owner \in Args.owners, location \in Locations,
       io \in ReadIOs :
        Begin("RegisterDevice", deviceID, owner, location, FALSE,
              Snapshot({deviceID}),
              RegisterDevice(ledger, deviceID, owner, location, io))

\* the return of RegisterDevice for the invocation c, which read c.read, when it
\* calls PutState now
RegisterDeviceWrite(c, io) ==
    ConflictDetection(c, RegisterDevice(c.read, c.deviceID, c.arg2, c.arg3, io),
                         RegisterDevice(c.read, c.deviceID, c.arg2, c.arg3, WriteFault))

\* RegisterDevice from its existence check on: the write and the return
RegisterDevicePut ==
    \E i \in DOMAIN running, io \in WriteIOs :
        LET c == running[i]
            r == RegisterDeviceWrite(c, io)
        IN  /\ c.op = "RegisterDevice"
            /\ Return(i, Invocation(c.op, c.deviceID, c.arg2, c.arg3, c.isValid, c.read, r), r)

\* SubmitData up to its existence check
SubmitDataCall ==
    \E deviceID \in Args.devices, timestamp \in Args.timestamps, data \in Args.data,
       io \in ReadIOs :
        Begin("SubmitData", deviceID, timestamp, data, FALSE,
              Snapshot({deviceID}),
              SubmitData(ledger, deviceID, timestamp, data, io))

\* the return of SubmitData for the invocation c, which read c.read, when it
\* calls PutState now
SubmitDataWrite(c, io) ==
    ConflictDetection(c, SubmitData(c.read, c.deviceID, c.arg2, c.arg3, io),
                         SubmitData(c.read, c.deviceID, c.arg2, c.arg3, WriteFault))

\* SubmitData from its existence check on: the write and the return
SubmitDataPut ==
    \E i \in DOMAIN running, io \in WriteIOs :
        LET c == running[i]
            r == SubmitDataWrite(c, io)
        IN  /\ c.op = "SubmitData"
            /\ Return(i, Invocation(c.op, c.deviceID, c.arg2, c.arg3, c.isValid, c.read, r), r)

\* VerifyData up to the lookup of the record
VerifyDataCall ==
    \E deviceID \in Args.devices, timestamp \in Args.timestamps,
       verifierID \in Args.verifiers, isValid \in BOOLEAN, io \in ReadIOs :
        Begin("VerifyData", deviceID, timestamp, verifierID, isValid,
              Snapshot({CreateCompositeKey(ObjectType, deviceID, timestamp).key}),
              VerifyData(ledger, deviceID, timestamp, verifierID, isValid, io))

\* the return of VerifyData for the invocation c, which read c.read, when it
\* calls PutState now
VerifyDataWrite(c, io) ==
    ConflictDetection(c, VerifyData(c.read, c.deviceID, c.arg2, c.arg3, c.isValid, io),
                         VerifyData(c.read, c.deviceID, c.arg2, c.arg3, c.isValid, WriteFault))

\* VerifyData from the lookup of the record on: the write and the return
VerifyDataPut ==
    \E i \in DOMAIN running, io \in WriteIOs :
        LET c == running[i]
            r == VerifyDataWrite(c, io)
        IN  /\ c.op = "VerifyData"
            /\ Return(i, Invocation(c.op, c.deviceID, c.arg2, c.arg3, c.isValid, c.read, r), r)

DeviceExistsCall ==
    \E deviceID \in Args.devices, io \in ReadIOs :
        LET r == DeviceExists(ledger, deviceID, io)
        IN  /\ Step(Invocation("DeviceExists", deviceID, NoArg, NoArg, FALSE,
                            Snapshot({deviceID}), r), r)
            /\ UNCHANGED <<registered, running, txs>>

GetDeviceCall ==
    \E deviceID \in Args.devices, io \in ReadIOs :
        LET r == GetDevice(ledger, deviceID, io)
        IN  /\ Step(Invocation("GetDevice", deviceID, NoArg, NoArg, FALSE,
                            Snapshot({deviceID}), r), r)
            /\ UNCHANGED <<registered, running, txs>>

GetDataRecordCall ==
    \E deviceID \in Args.devices, timestamp \in Args.timestamps, io \in ReadIOs :
        LET r == GetDataRecord(ledger, deviceID, timestamp, io)
        IN  /\ Step(Invocation("GetDataRecord", deviceID, timestamp, NoArg, FALSE,
                            Snapshot({CreateCompositeKey(ObjectType, deviceID,
                                                         timestamp).key}), r), r)
            /\ UNCHANGED <<registered, running, txs>>

\* an invocation awaiting commit is committed: its write is applied, and the
\* invocations that began before see the keys it wrote as written since
CommitValid ==
    \E i \in DOMAIN txs :
        LET tx == txs[i]
            after == [k \in DOMAIN ledger \cup DOMAIN tx.puts |->
                        IF k \in DOMAIN tx.puts THEN tx.puts[k] ELSE ledger[k]]
        IN  /\ Step(tx.inv, [ledger |-> after])
            /\ txs' = Remaining(txs, i)
            /\ running' = [j \in DOMAIN running |->
                             [running[j] EXCEPT !.since = @ \cup DOMAIN tx.puts]]
            /\ registered' = IF tx.inv.op = "RegisterDevice"
                             THEN Record(registered, tx.inv.deviceID,
                                         [err |-> OK, ledger |-> after])
                             ELSE registered

Next ==
    \/ RegisterDeviceCall
    \/ RegisterDevicePut
    \/ SubmitDataCall
    \/ SubmitDataPut
    \/ VerifyDataCall
    \/ VerifyDataPut
    \/ DeviceExistsCall
    \/ GetDeviceCall
    \/ GetDataRecordCall
    \/ CommitValid

Spec == Init /\ [][Next]_vars

-----------------------------------------------------------------------------
(* Vocabulary of the properties *)

\* a ledger collaborator whose calls succeed
NoFault == [getOK |-> TRUE, putOK |-> TRUE]

\* a Device has been registered under id d: a RegisterDevice(d, ...) succeeded
Registered(d) == d \in DOMAIN registered

\* the last invocation was a successful registration of d, its first
FirstRegistration(d) ==
    /\ last.op = "RegisterDevice"
    /\ last.deviceID = d
    /\ last.err = OK
    /\ Registered(d)
    /\ registered[d].count = 1

\* d was registered before the last invocation began
WasRegistered(d) == Registered(d) /\ ~FirstRegistration(d)

\* the stored object was written as a DataRecord
IsDataRecordJSON(json) == "deviceID" \in DOMAIN json

StatusAt(L, k) == IF k \in DOMAIN L THEN Member(L[k], "status") ELSE EmptyString

Terminal(L, k) == StatusAt(L, k) \in {Verified, Rejected}

\* the keys whose value differs between two world states
Changed(L1, L2) ==
    {k \in DOMAIN L1 \cup DOMAIN L2 :
        \/ k \notin DOMAIN L1
        \/ k \notin DOMAIN L2
        \/ L1[k] # L2[k]}

-----------------------------------------------------------------------------
(* C1 *)

\* C1: in every reachable world state every stored DataRecord has a deviceID
\* for which a Device is registered.
C1_NoRecordWithoutDevice ==
    \A k \in DOMAIN ledger :
        IsDataRecordJSON(ledger[k]) => Registered(ledger[k].deviceID)

-----------------------------------------------------------------------------
(* C2 *)

\* C2: RegisterDevice called for an id that is already registered returns
\* AlreadyExists (when its read of the key succeeds) and leaves the stored
\* Device as it was, whatever owner and location it is given: the world state
\* is unchanged, and a Device that stood as its registration wrote it still
\* does.  No id is registered a second time.  (An invocation that made its
\* existence check before the registration was committed was not called for
\* a registered id: it is one of the overlapping invocations of C17, and
\* ends with the error of its write.)
C2_SecondRegistrationRejected ==
    /\ \A d \in DOMAIN registered :
          /\ registered[d].count = 1
          /\ \A o \in Args.owners, l \in Locations :
                LET r == RegisterDevice(ledger, d, o, l, NoFault)
                IN  r.err = AlreadyExists /\ r.writes = <<>> /\ r.ledger = ledger
    /\ \A i \in DOMAIN running :
          (running[i].op = "RegisterDevice" /\ Registered(running[i].deviceID)) =>
              /\ running[i].deviceID \notin DOMAIN running[i].read
              /\ \A io \in WriteIOs :
                    RegisterDeviceWrite(running[i], io).err = LedgerWriteError
    /\ (last.op = "RegisterDevice" /\ WasRegistered(last.deviceID)) =>
          /\ last.deviceID \in DOMAIN last.read =>
                /\ last.err \in {AlreadyExists, LedgerReadError}
                /\ last.writes = <<>>
          /\ last.deviceID \notin DOMAIN last.read => last.err = LedgerWriteError
          /\ ledger = pre
          /\ (last.deviceID \in DOMAIN pre
                /\ pre[last.deviceID] = registered[last.deviceID].json)
             => ledger[last.deviceID] = registered[last.deviceID].json

\* a second registration with another owner than the stored one was rejected
C2_Witness ==
    /\ last.op = "RegisterDevice"
    /\ WasRegistered(last.deviceID)
    /\ last.err = AlreadyExists
    /\ ledger[last.deviceID] = registered[last.deviceID].json
    /\ CoerceUTF8(last.arg2) # ledger[last.deviceID].owner

-----
(* C3 *)

\* C3: once a Device has been registered under id d, the value stored under
\* key d is never deleted or overwritten: GetDevice(d) keeps returning the
\* Device the registration wrote, with status active.
C3_DeviceNeverOverwritten ==
    \A d \in DOMAIN registered :
        /\ d \in DOMAIN ledger
        /\ ledger[d] = registered[d].json
        /\ GetDevice(ledger, d, NoFault).err = OK
        /\ GetDevice(ledger, d, NoFault).value.Status = Active

-----------------------------------------------------------------------------
(* C4 *)

\* C4 as stated: once the record stored at a (deviceID, timestamp) has status
\* verified or rejected, no operation makes the record stored there pending
\* again.
C4_TerminalNeverPending ==
    \A k \in DOMAIN pre :
        Terminal(pre, k) => StatusAt(ledger, k) # Pending

\* C4 amended: a record with status verified or rejected keeps a status of
\* verified or rejected through every invocation but one: a successful
\* SubmitData for the same (deviceID, timestamp), which replaces it by a new
\* pending record.
C4_TerminalUntilResubmitted ==
    \A k \in DOMAIN pre :
        Terminal(pre, k) =>
            \/ Terminal(ledger, k)
            \/ /\ last.op = "SubmitData"
               /\ last.err = OK
               /\ last.writes = <<k>>
               /\ CreateCompositeKey(ObjectType, last.deviceID, last.arg2).key = k
               /\ StatusAt(ledger, k) = Pending

\* a verified or rejected record was submitted again and is pending
C4_Witness ==
    \E k \in DOMAIN pre :
        /\ Terminal(pre, k)
        /\ last.op = "SubmitData"
        /\ StatusAt(ledger, k) = Pending

-----------------------------------------------------------------------------
(* C5 *)

\* C5: SubmitData for a deviceID that is not registered returns
\* DeviceNotRegistered (when its read of the device key succeeds) and creates
\* no record: the world state is unchanged and GetDataRecord for the pair
\* finds no record (NotFound, or no key can be built for the pair at all).
C5_UnregisteredSubmitRejected ==
    (last.op = "SubmitData" /\ ~Registered(last.deviceID)
        /\ last.err # LedgerReadError) =>
        /\ last.err = DeviceNotRegistered
        /\ ledger = pre
        /\ GetDataRecord(ledger, last.deviceID, last.arg2, NoFault).err
              \in {NotFound, CompositeKeyError}

-----------------------------------------------------------------------------
(* C6 *)

\* C6: a VerifyData that succeeds on an existing record, whatever the record's
\* status, leaves it with status verified when isValid and rejected otherwise,
\* and with the supplied verifierID.
C6_VerifySetsStatusAndVerifier ==
    (last.op = "VerifyData" /\ last.err = OK) =>
        LET g == GetDataRecord(ledger, last.deviceID, last.arg2, NoFault)
        IN  /\ g.err = OK
            /\ g.value.Status = IF last.isValid THEN Verified ELSE Rejected
            /\ g.value.VerifierID = last.arg3

\* the same for a verifierID that is valid UTF-8
C6_ForText ==
    (last.op = "VerifyData" /\ last.err = OK /\ ValidUTF8(last.arg3)) =>
        LET g == GetDataRecord(ledger, last.deviceID, last.arg2, NoFault)
        IN  /\ g.err = OK
            /\ g.value.Status = IF last.isValid THEN Verified ELSE Rejected
            /\ g.value.VerifierID = last.arg3

-----------------------------------------------------------------------------
(* C7 *)

\* no record is stored for the pair (deviceID, timestamp)
NoRecordStored(L, deviceID, timestamp) ==
    LET ck == CreateCompositeKey(ObjectType, deviceID, timestamp)
    IN  ck.err \/ ck.key \notin DOMAIN L

\* C7 as stated: VerifyData on a pair for which no record is stored returns
\* NotFound (when its read succeeds) and writes nothing.
C7_VerifyAbsentAlwaysNotFound ==
    (last.op = "VerifyData" /\ NoRecordStored(pre, last.deviceID, last.arg2)
        /\ last.err # LedgerReadError) =>
        /\ last.err = NotFound
        /\ last.writes = <<>>
        /\ ledger = pre

\* C7 amended: VerifyData on a pair for which no record is stored returns an
\* error and writes nothing, no key is created and every key keeps its value;
\* the error is NotFound once the composite key is built and read, and the
\* error of CreateCompositeKey when deviceID or timestamp cannot be an
\* attribute of a composite key.
C7_VerifyAbsentNotFound ==
    (last.op = "VerifyData" /\ NoRecordStored(pre, last.deviceID, last.arg2)) =>
        /\ last.err # OK
        /\ last.writes = <<>>
        /\ ledger = pre
        /\ NoRecordStored(ledger, last.deviceID, last.arg2)
        /\ last.err \in {NotFound, CompositeKeyError, LedgerReadError}
        /\ last.err = CompositeKeyError <=>
              CreateCompositeKey(ObjectType, last.deviceID, last.arg2).err

\* VerifyData found no record although other keys hold values
C7_Witness ==
    /\ last.op = "VerifyData"
    /\ last.err = NotFound
    /\ DOMAIN ledger # {}

-----------------------------------------------------------------------------
(* C8 *)

\* C8: after a successful RegisterDevice(deviceID, owner, location),
\* GetDevice(deviceID) returns the Device with id = deviceID, owner = owner,
\* location = location and status = active.
C8_RegisterThenGetDevice ==
    (last.op = "RegisterDevice" /\ last.err = OK) =>
        LET g == GetDevice(ledger, last.deviceID, NoFault)
        IN  /\ g.err = OK
            /\ g.value = [ID |-> last.deviceID, Owner |-> last.arg2,
                          Location |-> last.arg3, Status |-> Active]

\* the same for arguments that are valid UTF-8
C8_ForText ==
    (last.op = "RegisterDevice" /\ last.err = OK /\ ValidUTF8(last.deviceID)
        /\ ValidUTF8(last.arg2) /\ ValidUTF8(last.arg3)) =>
        LET g == GetDevice(ledger, last.deviceID, NoFault)
        IN  /\ g.err = OK
            /\ g.value = [ID |-> last.deviceID, Owner |-> last.arg2,
                          Location |-> last.arg3, Status |-> Active]

-----------------------------------------------------------------------------
(* C9 *)

\* C9: after a successful SubmitData(deviceID, timestamp, data),
\* GetDataRecord(deviceID, timestamp) returns the DataRecord with those
\* deviceID, timestamp and data, status pending and empty verifierID.
C9_SubmitThenGetDataRecord ==
    (last.op = "SubmitData" /\ last.err = OK) =>
        LET g == GetDataRecord(ledger, last.deviceID, last.arg2, NoFault)
        IN  /\ g.err = OK
            /\ g.value = [DeviceID |-> last.deviceID, Timestamp |-> last.arg2,
                          Data |-> last.arg3, Status |-> Pending,
                          VerifierID |-> EmptyString]

\* the same for data that is valid UTF-8
C9_ForText ==
    (last.op = "SubmitData" /\ last.err = OK /\ ValidUTF8(last.arg3)) =>
        LET g == GetDataRecord(ledger, last.deviceID, last.arg2, NoFault)
        IN  /\ g.err = OK
            /\ g.value = [DeviceID |-> last.deviceID, Timestamp |-> last.arg2,
                          Data |-> last.arg3, Status |-> Pending,
                          VerifierID |-> EmptyString]

-----------------------------------------------------------------------------
(* C10 *)

\* the reads and validations of the invocation inv succeeded on the world
\* state L
ValidatedOn(inv, L) ==
    LET ck == CreateCompositeKey(ObjectType, inv.deviceID, inv.arg2)
    IN  CASE inv.op = "RegisterDevice" ->
                /\ inv.deviceID \notin DOMAIN L
                /\ inv.writes = <<inv.deviceID>>
          [] inv.op = "SubmitData" ->
                /\ inv.deviceID \in DOMAIN L
                /\ ~ck.err
                /\ inv.writes = <<ck.key>>
          [] inv.op = "VerifyData" ->
                /\ ~ck.err
                /\ ck.key \in DOMAIN L
                /\ inv.writes = <<ck.key>>
          [] OTHER -> FALSE

\* the reads and validations of the last invocation succeeded on what it
\* read and, when its write was committed, on the world state right before
Validated ==
    /\ ValidatedOn(last, last.read)
    /\ last.err = OK => ValidatedOn(last, pre)

\* C10: an invocation calls PutState at most once, and only after all its reads
\* and validations succeeded; one that returns any error but that of its write
\* has written nothing, and one that completes with anything but success
\* leaves the world state as it was.  A successful one changes no key but the
\* one it wrote.  An invocation awaiting commit recorded exactly one write,
\* and so will every invocation that is about to call PutState: it has passed
\* its validations on what it read.
C10_NoPartialCommit ==
    /\ Len(last.writes) <= 1
    /\ last.writes # <<>> => Validated /\ last.err \in {OK, LedgerWriteError}
    /\ last.err \notin {OK, LedgerWriteError} => last.writes = <<>>
    /\ last.err # OK => ledger = pre
    /\ Changed(pre, ledger) \subseteq {last.writes[i] : i \in 1..Len(last.writes)}
    /\ \A i \in DOMAIN txs :
          /\ txs[i].inv.err = OK
          /\ Len(txs[i].inv.writes) = 1
          /\ DOMAIN txs[i].puts = {txs[i].inv.writes[1]}
          /\ ValidatedOn(txs[i].inv, txs[i].inv.read)
          /\ ValidatedOn(txs[i].inv, ledger)
    /\ \A i \in DOMAIN running :
          LET c == running[i]
              r == CASE c.op = "RegisterDevice" -> RegisterDeviceWrite(c, NoFault)
                     [] c.op = "SubmitData" -> SubmitDataWrite(c, NoFault)
                     [] c.op = "VerifyData" -> VerifyDataWrite(c, NoFault)
          IN  /\ r.err \in {OK, LedgerWriteError}
              /\ Len(r.writes) = 1
              /\ ValidatedOn([op |-> c.op, deviceID |-> c.deviceID,
                              arg2 |-> c.arg2, writes |-> r.writes], c.read)

\* an invocation failed validation on a world state that holds values
C10_Witness ==
    /\ last.err \in {AlreadyExists, DeviceNotRegistered, NotFound}
    /\ last.op \in {"RegisterDevice", "SubmitData", "VerifyData"}
    /\ DOMAIN pre # {}
    /\ ledger = pre

-----------------------------------------------------------------------------
(* C11 *)

\* the pair (deviceID, timestamp) holds a value in L
HoldsRecord(L, deviceID, timestamp) ==
    LET ck == CreateCompositeKey(ObjectType, deviceID, timestamp)
    IN  ~ck.err /\ ck.key \in DOMAIN L

\* C11: SubmitData for a registered device and a pair that already holds a
\* record is not rejected (when the ledger's calls succeed): it succeeds and
\* replaces the stored record, no key is added, and the one record of the pair
\* carries the data of this submission.
C11_ResubmitReplaces ==
    (last.op = "SubmitData" /\ Registered(last.deviceID)
        /\ HoldsRecord(pre, last.deviceID, last.arg2)
        /\ last.err \notin {LedgerReadError, LedgerWriteError}) =>
        LET g == GetDataRecord(ledger, last.deviceID, last.arg2, NoFault)
        IN  /\ last.err = OK
            /\ DOMAIN ledger = DOMAIN pre
            /\ g.err = OK
            /\ g.value.Data = last.arg3

\* the same for data that is valid UTF-8
C11_ForText ==
    (last.op = "SubmitData" /\ Registered(last.deviceID)
        /\ HoldsRecord(pre, last.deviceID, last.arg2)
        /\ last.err \notin {LedgerReadError, LedgerWriteError}
        /\ ValidUTF8(last.arg3)) =>
        LET g == GetDataRecord(ledger, last.deviceID, last.arg2, NoFault)
        IN  /\ last.err = OK
            /\ DOMAIN ledger = DOMAIN pre
            /\ g.err = OK
            /\ g.value.Data = last.arg3

-----------------------------------------------------------------------------
(* C12 *)

Inactive == <<"inactive">>

\* C12: in every reachable world state, every DataRecord stored for a pair
\* (deviceID, timestamp) has status pending, verified or rejected, and every
\* Device stored for a registered id has status active or inactive.
C12_StatusInRange ==
    /\ \A d \in Args.devices, t \in Args.timestamps :
          LET g == GetDataRecord(ledger, d, t, NoFault)
          IN  g.err = OK => g.value.Status \in {Pending, Verified, Rejected}
    /\ \A d \in DOMAIN registered :
          LET g == GetDevice(ledger, d, NoFault)
          IN  g.err = OK => g.value.Status \in {Active, Inactive}

-----------------------------------------------------------------------------
(* C13 *)

\* C13: when the read of VerifyData succeeds and finds a record and its write
\* fails, VerifyData returns the error of the write and the world state is as
\* before: the stored record keeps its status and verifierID.
C13_FailedWriteKeepsRecord ==
    /\ \A d \in Args.devices, t \in Args.timestamps, v \in Args.verifiers, b \in BOOLEAN :
          HoldsRecord(ledger, d, t) =>
              LET r == VerifyData(ledger, d, t, v, b, WriteFault)
              IN  /\ r.err = LedgerWriteError
                  /\ r.ledger = ledger
                  /\ GetDataRecord(r.ledger, d, t, NoFault).value
                        = GetDataRecord(ledger, d, t, NoFault).value
    /\ (last.op = "VerifyData" /\ last.err = LedgerWriteError) =>
          /\ HoldsRecord(pre, last.deviceID, last.arg2)
          /\ ledger = pre
          /\ GetDataRecord(ledger, last.deviceID, last.arg2, NoFault).value
                = GetDataRecord(pre, last.deviceID, last.arg2, NoFault).value

\* the write of a VerifyData that would have changed a pending record failed,
\* and the record is still pending with no verifier
C13_Witness ==
    /\ last.op = "VerifyData"
    /\ last.err = LedgerWriteError
    /\ LET g == GetDataRecord(ledger, last.deviceID, last.arg2, NoFault)
       IN  /\ g.err = OK
           /\ g.value.Status = Pending
           /\ g.value.VerifierID = EmptyString

-----------------------------------------------------------------------------
(* C14 *)

\* a ledger collaborator whose read fails
ReadFault == [getOK |-> FALSE, putOK |-> TRUE]

\* C14: DeviceExists returns false and no error when the key holds no value,
\* true and no error when it holds one, and an error exactly when the read
\* fails; RegisterDevice and SubmitData then return that error, and neither
\* "not registered" nor "already registered", and write nothing.
C14_AbsenceIsNotFailure ==
    /\ \A d \in Args.devices :
          /\ DeviceExists(ledger, d, NoFault).err = OK
          /\ DeviceExists(ledger, d, NoFault).value.bool = (d \in DOMAIN ledger)
          /\ DeviceExists(ledger, d, ReadFault).err = LedgerReadError
          /\ \A o \in Args.owners, l \in Locations :
                LET r == RegisterDevice(ledger, d, o, l, ReadFault)
                IN  r.err = LedgerReadError /\ r.writes = <<>> /\ r.ledger = ledger
          /\ \A t \in Args.timestamps, x \in Args.data :
                LET r == SubmitData(ledger, d, t, x, ReadFault)
                IN  r.err = LedgerReadError /\ r.writes = <<>> /\ r.ledger = ledger
    /\ last.op = "DeviceExists" =>
          /\ last.err \in {OK, LedgerReadError}
          /\ last.err = OK => last.value.bool = (last.deviceID \in DOMAIN pre)
    /\ (last.op \in {"RegisterDevice", "SubmitData"} /\ last.err = LedgerReadError) =>
          ledger = pre /\ last.writes = <<>>

\* a SubmitData for a registered device returned the error of its read
C14_Witness ==
    /\ last.op = "SubmitData"
    /\ last.err = LedgerReadError
    /\ last.deviceID \in DOMAIN ledger

-----------------------------------------------------------------------------
(* C15 *)

\* C15: a successful VerifyData(deviceID, timestamp, ...) changes only the
\* status and verifierID of the record stored for the pair: its deviceID,
\* timestamp and data, every other key, and every Device are as before, and
\* GetDataRecord returns the record with the new status and the supplied
\* verifier.
C15_VerifyChangesOnlyStatusAndVerifier ==
    (last.op = "VerifyData" /\ last.err = OK) =>
        LET ck == CreateCompositeKey(ObjectType, last.deviceID, last.arg2)
            before == GetDataRecord(pre, last.deviceID, last.arg2, NoFault)
            after == GetDataRecord(ledger, last.deviceID, last.arg2, NoFault)
        IN  /\ Changed(pre, ledger) \subseteq {ck.key}
            /\ before.err = OK /\ after.err = OK
            /\ after.value.DeviceID = before.value.DeviceID
            /\ after.value.Timestamp = before.value.Timestamp
            /\ after.value.Data = before.value.Data
            /\ after.value.Status = IF last.isValid THEN Verified ELSE Rejected
            /\ after.value.VerifierID = last.arg3
            /\ \A d \in DOMAIN registered :
                  GetDevice(ledger, d, NoFault).value = GetDevice(pre, d, NoFault).value

\* the same where the record's key is not a registered device id and the
\* verifierID is valid UTF-8
C15_ForTextAndDistinctKeys ==
    (last.op = "VerifyData" /\ last.err = OK /\ ValidUTF8(last.arg3)
        /\ ~Registered(CreateCompositeKey(ObjectType, last.deviceID, last.arg2).key)) =>
        LET ck == CreateCompositeKey(ObjectType, last.deviceID, last.arg2)
            before == GetDataRecord(pre, last.deviceID, last.arg2, NoFault)
            after == GetDataRecord(ledger, last.deviceID, last.arg2, NoFault)
        IN  /\ Changed(pre, ledger) \subseteq {ck.key}
            /\ before.err = OK /\ after.err = OK
            /\ after.value.DeviceID = before.value.DeviceID
            /\ after.value.Timestamp = before.value.Timestamp
            /\ after.value.Data = before.value.Data
            /\ after.value.Status = IF last.isValid THEN Verified ELSE Rejected
            /\ after.value.VerifierID = last.arg3
            /\ \A d \in DOMAIN registered :
                  GetDevice(ledger, d, NoFault).value = GetDevice(pre, d, NoFault).value

-----------------------------------------------------------------------------
(* C16 *)

\* the last invocation was a successful VerifyData that wrote key k
VerifiedNow(k) ==
    /\ last.op = "VerifyData"
    /\ last.err = OK
    /\ last.writes = <<k>>

\* C16: in every reachable world state a stored DataRecord with status pending
\* has an empty verifierID, and one with status verified or rejected has the
\* verifierID supplied by the most recent successful VerifyData on its pair:
\* the one of the last invocation when that was such a VerifyData, and
\* otherwise the one the record had before the last invocation.
C16_VerifierFollowsStatus ==
    \A k \in DOMAIN ledger :
        IsDataRecordJSON(ledger[k]) =>
            LET rec == UnmarshalDataRecord(ledger[k])
            IN  /\ rec.Status = Pending => rec.VerifierID = EmptyString
                /\ rec.Status \in {Verified, Rejected} =>
                      IF VerifiedNow(k)
                      THEN rec.VerifierID = last.arg3
                      ELSE /\ k \in DOMAIN pre
                           /\ Terminal(pre, k)
                           /\ rec.VerifierID = UnmarshalDataRecord(pre[k]).VerifierID

\* the same where the last verifierID is valid UTF-8
C16_ForText ==
    \A k \in DOMAIN ledger :
        IsDataRecordJSON(ledger[k]) =>
            LET rec == UnmarshalDataRecord(ledger[k])
            IN  /\ rec.Status = Pending => rec.VerifierID = EmptyString
                /\ rec.Status \in {Verified, Rejected} =>
                      IF VerifiedNow(k)
                      THEN ValidUTF8(last.arg3) => rec.VerifierID = last.arg3
                      ELSE /\ k \in DOMAIN pre
                           /\ Terminal(pre, k)
                           /\ rec.VerifierID = UnmarshalDataRecord(pre[k]).VerifierID

-----------------------------------------------------------------------------
(* C17 *)

\* an invocation of RegisterDevice for d returned nil and awaits the commit of
\* its write
AwaitsRegistration(d) ==
    \E i \in DOMAIN txs :
        txs[i].inv.op = "RegisterDevice" /\ txs[i].inv.deviceID = d

\* C17: of two RegisterDevice invocations for the same deviceID that overlap
\* (the second makes its existence check before the write of the first is
\* committed) at most one succeeds.  The second finds no value, and whatever
\* owner and location it is given it returns the error of its write, which
\* the ledger's conflict detection rejects, and writes nothing: whether it
\* calls PutState while the first awaits its commit or after the first has
\* been committed.  No two invocations await commit with a write to one key,
\* no id has a second registration committed, and the stored Device is the
\* one the successful invocation wrote.
C17_AtMostOneSucceeds ==
    /\ \A i, j \in DOMAIN txs :
          i # j => DOMAIN txs[i].puts \cap DOMAIN txs[j].puts = {}
    /\ \A d \in Args.devices :
          AwaitsRegistration(d) =>
              \A o \in Args.owners, l \in Locations :
                  LET c == [op |-> "RegisterDevice", deviceID |-> d, arg2 |-> o,
                            arg3 |-> l, isValid |-> FALSE,
                            read |-> Snapshot({d}), since |-> {}]
                      r == RegisterDeviceWrite(c, NoFault)
                  IN  /\ DeviceExists(ledger, d, NoFault).value.bool = FALSE
                      /\ r.err = LedgerWriteError
                      /\ WriteSet(r) = EmptyLedger
    /\ \A i \in DOMAIN running :
          LET c == running[i]
          IN  (/\ c.op = "RegisterDevice"
               /\ AwaitsRegistration(c.deviceID) \/ c.deviceID \in DOMAIN ledger) =>
                  \A io \in WriteIOs :
                      LET r == RegisterDeviceWrite(c, io)
                      IN  r.err = LedgerWriteError /\ WriteSet(r) = EmptyLedger
    /\ (last.op = "RegisterDevice" /\ AwaitsRegistration(last.deviceID)) =>
          /\ last.err \in {LedgerWriteError, LedgerReadError}
          /\ ledger = pre
          /\ last.deviceID \notin DOMAIN ledger
    /\ \A d \in DOMAIN registered : registered[d].count = 1
    /\ FirstRegistration(last.deviceID) =>
          /\ last.deviceID \notin DOMAIN pre
          /\ ledger[last.deviceID] = registered[last.deviceID].json
          /\ ledger[last.deviceID].owner = CoerceUTF8(last.arg2)

\* an invocation for an id whose registration by another owner awaits commit
\* returned the error of its write
C17_Witness ==
    /\ last.op = "RegisterDevice"
    /\ last.err = LedgerWriteError
    /\ \E i \in DOMAIN txs :
          /\ txs[i].inv.op = "RegisterDevice"
          /\ txs[i].inv.deviceID = last.deviceID
          /\ txs[i].inv.arg2 # last.arg2
    /\ last.deviceID \notin DOMAIN ledger

-----------------------------------------------------------------------------
(* C18 *)

\* C18: in every reachable world state and for every id, DeviceExists(id)
\* returns true exactly when an earlier RegisterDevice(id, ...) succeeded; a
\* data record written by SubmitData or VerifyData makes it true for no id.
C18_ExistsIffRegistered ==
    \A d \in Args.devices :
        DeviceExists(ledger, d, NoFault).value.bool = Registered(d)

-----------------------------------------------------------------------------
(* C19 *)

\* C19: in every reachable world state the record stored under the composite
\* key of (d, t) has deviceID = d and timestamp = t, and the Device stored
\* under a registered id d has id = d.
C19_EntitiesAgreeWithKeys ==
    /\ \A d \in Args.devices, t \in Args.timestamps :
          LET g == GetDataRecord(ledger, d, t, NoFault)
          IN  g.err = OK => g.value.DeviceID = d /\ g.value.Timestamp = t
    /\ \A d \in DOMAIN registered :
          LET g == GetDevice(ledger, d, NoFault)
          IN  g.err = OK => g.value.ID = d

-----------------------------------------------------------------------------
(* C20 *)

Queries == {"DeviceExists", "GetDevice", "GetDataRecord"}

\* C20: DeviceExists, GetDevice and GetDataRecord never write: whatever they
\* return, a value or any error, they call PutState on no key and every key of
\* the world state holds the value it held, so that any operation gives after
\* the query the result it would have given before it.
C20_QueriesNeverWrite ==
    /\ last.op \in Queries =>
          /\ last.writes = <<>>
          /\ Changed(pre, ledger) = {}
          /\ ledger = pre
    /\ \A d \in Args.devices, io \in ReadIOs :
          /\ DeviceExists(ledger, d, io).ledger = ledger
          /\ GetDevice(ledger, d, io).ledger = ledger
          /\ \A t \in Args.timestamps : GetDataRecord(ledger, d, t, io).ledger = ledger

\* a query returned NotFound on a world state that holds values
C20_Witness ==
    /\ last.op \in {"GetDevice", "GetDataRecord"}
    /\ last.err = NotFound
    /\ DOMAIN ledger # {}
    /\ ledger = pre

====
